---- MODULE Spec2Model ----
(***************************************************************************)
(* scripts/train_pct.py: the launcher around Point-Transformers'            *)
(* train_cls.py.  One behaviour is one invocation of main() against a      *)
(* filesystem that earlier invocations may already have written to.        *)
(***************************************************************************)
EXTENDS Integers, Sequences, FiniteSets, TLC

VARIABLES
    pc,            \* position of main(): start, provision, provenance, link, spawn, wait, done, crashed
    argv,          \* sys.argv
    args,          \* the argparse namespace
    cwd,           \* the launcher's working directory
    now,           \* the wall clock, in seconds
    out,           \* <<>> before step 1, then <<the output directory>>
    meta,          \* <<>> before step 2, then <<the provenance dict>>
    cmd,           \* <<>> before step 4, then <<the child's command line>>
    repo,          \* what is at REPO: "dir", "absent" or "file"
    link,          \* what is at REPO/modelnet40_normal_resampled
    dirs,          \* the output directories that exist
    files,         \* the files under the output directories: <<dir, name>> -> content
    terminal,      \* what has appeared on the launcher's terminal
    events,        \* the filesystem and process calls main() has made, in order
    child_ret,     \* <<>>, or <<the status the child exited with>>
    exit_status,   \* <<>> while main() runs, then <<the launcher's own exit status>>
    script_available, \* whether the host has the terminal-session-recording utility
    probe,         \* which of step 2's lookups raised: git in REPO, git in ROOT, torch
    linker,        \* <<>> before step 3 ran, then <<what ensure_symlink did>>
    link0          \* the link as the invocation found it

vars == <<pc, argv, args, cwd, now, out, meta, cmd, repo, link, dirs, files,
          terminal, events, child_ret, exit_status, script_available, probe,
          linker, link0>>

----------------------------------------------------------------------------
(* Bounds of the model. *)

MaxExtra == 2      \* longest trailing pass-through argument list
MaxStatus == 2     \* child exit statuses are 0..MaxStatus

----------------------------------------------------------------------------
(* Paths.  A path is a string; resolving one is a table lookup. *)

ROOT == "/r"
REPO == "/r/repos/Point-Transformers"
DATA_DEFAULT == "/r/datasets/modelnet40_normal_resampled"
LINK == "/r/repos/Point-Transformers/modelnet40_normal_resampled"

DataAlt == "/r/datasets/alt"          \* another dataset directory, spelled absolutely
DataAltRel == "datasets/alt"          \* the same directory, spelled relative to ROOT
Gone == "/r/datasets/removed"         \* a directory that no longer exists

RelPaths == {DataAltRel}
ExistingDirs == {DATA_DEFAULT, DataAlt}
Cwds == {ROOT, REPO}

\* os.path.join(base, p) followed by normalisation
Join(base, p) == IF p \in RelPaths THEN base \o "/" \o p ELSE p

\* Path.resolve() of a path that is not itself a symlink, from directory base
Resolve(base, p) == Join(base, p)

NoLink == [kind |-> "absent", to |-> ""]
SymlinkTo(p) == [kind |-> "symlink", to |-> p]
RealDir == [kind |-> "dir", to |-> ""]
RealFile == [kind |-> "file", to |-> ""]

\* Path.exists(): follows the symlink
Exists(lk) ==
    \/ lk.kind \in {"dir", "file"}
    \/ lk.kind = "symlink" /\ Resolve(REPO, lk.to) \in ExistingDirs

IsSymlink(lk) == lk.kind = "symlink"

\* link.resolve(): a symlink's content is read relative to the link's directory
ResolveLink(lk) == IF lk.kind = "symlink" THEN Resolve(REPO, lk.to) ELSE LINK

----------------------------------------------------------------------------
(* ensure_symlink.  fault names the filesystem call that raises OSError for  *)
(* a reason of the host (permissions, unsupported filesystem), "none" if    *)
(* none does.  The result is the link and REPO afterwards, whether the      *)
(* warning was printed, whether an exception left the function, and the     *)
(* calls made.                                                              *)

LinkFaults == {"none", "mkdir", "stat", "resolve", "unlink", "symlink"}

LinkResult(lk, rp, warned, raised, calls) ==
    [link |-> lk, repo |-> rp, warned |-> warned, raised |-> raised, calls |-> calls]

\* link.symlink_to(target, target_is_directory=True), inside the try
symlink_to(target, rp, fault, calls) ==
    IF fault = "symlink"
    THEN LinkResult(NoLink, rp, TRUE, FALSE, calls \o <<"symlink_to">>)
    ELSE LinkResult(SymlinkTo(target), rp, FALSE, FALSE, calls \o <<"symlink_to">>)

\* ensure_symlink testing link.exists() alone: a broken symlink is taken for
\* an absent one and symlink_to finds the name taken (FileExistsError)
ensure_symlink_exists_only(target, lk, rp, wd, fault) ==
    IF rp = "file" \/ (rp = "absent" /\ fault = "mkdir")
    THEN LinkResult(lk, rp, FALSE, TRUE, <<"mkdir">>)
    ELSE IF fault = "stat"
    THEN LinkResult(lk, "dir", TRUE, FALSE, <<"mkdir">>)
    ELSE IF Exists(lk)
    THEN IF fault = "resolve"
         THEN LinkResult(lk, "dir", TRUE, FALSE, <<"mkdir">>)
         ELSE IF ResolveLink(lk) # Resolve(wd, target)
         THEN IF fault = "unlink" \/ lk.kind = "dir"
              THEN LinkResult(lk, "dir", TRUE, FALSE, <<"mkdir", "unlink">>)
              ELSE symlink_to(target, "dir", fault, <<"mkdir", "unlink">>)
         ELSE LinkResult(lk, "dir", FALSE, FALSE, <<"mkdir">>)
    ELSE IF IsSymlink(lk)
    THEN LinkResult(lk, "dir", TRUE, FALSE, <<"mkdir", "symlink_to">>)
    ELSE symlink_to(target, "dir", fault, <<"mkdir">>)

ensure_symlink(target, lk, rp, wd, fault) ==
    IF rp = "file" \/ (rp = "absent" /\ fault = "mkdir")
    THEN \* link_parent.mkdir(...) is outside the try
         LinkResult(lk, rp, FALSE, TRUE, <<"mkdir">>)
    ELSE IF fault = "stat"
    THEN LinkResult(lk, "dir", TRUE, FALSE, <<"mkdir">>)
    ELSE IF Exists(lk) \/ IsSymlink(lk)
    THEN IF fault = "resolve"
         THEN LinkResult(lk, "dir", TRUE, FALSE, <<"mkdir">>)
         ELSE IF ResolveLink(lk) # Resolve(wd, target)
         THEN IF fault = "unlink" \/ lk.kind = "dir"
              THEN LinkResult(lk, "dir", TRUE, FALSE, <<"mkdir", "unlink">>)
              ELSE symlink_to(target, "dir", fault, <<"mkdir", "unlink">>)
         ELSE LinkResult(lk, "dir", FALSE, FALSE, <<"mkdir">>)
    ELSE symlink_to(target, "dir", fault, <<"mkdir">>)

----------------------------------------------------------------------------
(* git_rev.  git's outcome is its output (a sequence of characters) or the  *)
(* exception check_output raises.                                          *)

Whitespace == {" ", "\n", "\t"}

RECURSIVE lstrip(_)
lstrip(s) == IF s # <<>> /\ Head(s) \in Whitespace THEN lstrip(Tail(s)) ELSE s

RECURSIVE rstrip(_)
rstrip(s) ==
    IF s # <<>> /\ s[Len(s)] \in Whitespace THEN rstrip(SubSeq(s, 1, Len(s) - 1)) ELSE s

strip(s) == rstrip(lstrip(s))

Unknown == <<"u", "n", "k", "n", "o", "w", "n">>

GitOk(output) == [raises |-> FALSE, output |-> output, why |-> ""]
GitFails(why) == [raises |-> TRUE, output |-> <<>>, why |-> why]

RepoHead == <<"c", "0", "f", "\n">>
BenchHead == <<"9", "a", "1", "\n">>

GitFailures == {GitFails("git not installed"), GitFails("not a repository"),
                GitFails("non-zero exit"), GitFails("cwd missing")}

git_rev(outcome) == IF outcome.raises THEN Unknown ELSE strip(outcome.output)

----------------------------------------------------------------------------
(* The optional accelerator block of the provenance record.  The dict       *)
(* literal is evaluated key by key; meta.update runs only if every value   *)
(* was computed.                                                           *)

TorchOutcomes == {"not_installed", "cuda_query_fails", "device_name_fails", "cpu_only", "gpu"}
TorchKeys == <<"torch", "cuda_version", "cuda_available", "gpu_name">>

TorchRaises(outcome, key) ==
    \/ outcome = "not_installed"
    \/ outcome = "cuda_query_fails" /\ key \in {"cuda_available", "gpu_name"}
    \/ outcome = "device_name_fails" /\ key = "gpu_name"

TorchValue(outcome, key) ==
    CASE key = "torch" -> <<"2.1.0">>
      [] key = "cuda_version" -> IF outcome = "cpu_only" THEN <<>> ELSE <<"12.1">>
      [] key = "cuda_available" -> <<outcome # "cpu_only">>
      [] key = "gpu_name" -> IF outcome = "cpu_only" THEN <<>> ELSE <<"A100">>

\* the first key whose value raises, 0 if none does
FirstRaise(outcome) ==
    LET bad == {i \in 1..Len(TorchKeys) : TorchRaises(outcome, TorchKeys[i])}
    IN IF bad = {} THEN 0 ELSE CHOOSE i \in bad : \A j \in bad : i <= j

\* the block filled in key by key (meta['torch'] = ..., meta['cuda_version'] = ...):
\* the keys before the one that raised stay in the record
torch_keys_one_by_one(outcome) ==
    IF FirstRaise(outcome) = 0
    THEN {TorchKeys[i] : i \in 1..Len(TorchKeys)}
    ELSE {TorchKeys[i] : i \in 1..(FirstRaise(outcome) - 1)}

\* the keys that reach the record
torch_keys(outcome) ==
    IF FirstRaise(outcome) = 0 THEN {TorchKeys[i] : i \in 1..Len(TorchKeys)} ELSE {}

BaseKeys == {"model", "repo_path", "repo_commit", "bench_commit", "time", "argv"}

strftime(t) == "2025-01-01 00:00:0" \o ToString(t)
Stamp(t) == "20250101-00000" \o ToString(t)

\* the dict main() builds in step 2
provenance(av, repo_git, bench_git, t, torch) ==
    [k \in BaseKeys \cup torch_keys(torch) |->
        CASE k = "model" -> <<"Point-Transformers (PCT variant)">>
          [] k = "repo_path" -> <<REPO>>
          [] k = "repo_commit" -> git_rev(repo_git)
          [] k = "bench_commit" -> git_rev(bench_git)
          [] k = "time" -> <<strftime(t)>>
          [] k = "argv" -> av
          [] OTHER -> TorchValue(torch, k)]

----------------------------------------------------------------------------
(* argparse.  --out and --data take a value, --no-symlink is a flag, and    *)
(* the REMAINDER positional takes everything from the first token that is  *)
(* not one of the launcher's options, the token itself included.           *)

Separator == "--"
Overrides == {"trainer.fast_dev_run=1"}
ExtraTokens == {Separator} \cup Overrides
Extras == UNION {[1..n -> ExtraTokens] : n \in 0..MaxExtra}

OutDirs == {"/runs/o1"}
DataPaths == {DataAlt, DataAltRel}

DefaultNamespace == [out |-> <<>>, data |-> DATA_DEFAULT, extra |-> <<>>, no_symlink |-> FALSE]

RECURSIVE ParseFrom(_, _)
ParseFrom(toks, ns) ==
    IF toks = <<>> THEN ns
    ELSE IF Head(toks) = "--out" /\ Len(toks) >= 2
    THEN ParseFrom(SubSeq(toks, 3, Len(toks)), [ns EXCEPT !.out = <<toks[2]>>])
    ELSE IF Head(toks) = "--data" /\ Len(toks) >= 2
    THEN ParseFrom(SubSeq(toks, 3, Len(toks)), [ns EXCEPT !.data = toks[2]])
    ELSE IF Head(toks) = "--no-symlink"
    THEN ParseFrom(Tail(toks), [ns EXCEPT !.no_symlink = TRUE])
    ELSE [ns EXCEPT !.extra = toks]

parse_args(av) == ParseFrom(Tail(av), DefaultNamespace)

\* the command lines a caller can type: options first, then the trailing list
Argvs ==
    {<<"train_pct.py">> \o o \o d \o n \o e :
        o \in {<<>>} \cup {<<"--out", p>> : p \in OutDirs},
        d \in {<<>>} \cup {<<"--data", p>> : p \in DataPaths},
        n \in {<<>>, <<"--no-symlink">>},
        e \in Extras}

\* step 1: args.out or ROOT/runs/pct/<timestamp>
out_dir(ns, t) == IF ns.out # <<>> THEN ns.out[1] ELSE ROOT \o "/runs/pct/" \o Stamp(t)

\* step 4: the child's command line
build_cmd(ns) == <<"python", "train_cls.py">> \o ns.extra

----------------------------------------------------------------------------
(* run_and_report after proc.wait() returned ret, and the interpreter's     *)
(* exit status for main().                                                 *)

run_and_report(ret) ==
    [raised |-> ret # 0,
     printed |-> IF ret # 0
                 THEN <<[src |-> "launcher", text |-> "[ERROR] Subprocess failed:", arg |-> <<>>],
                        [src |-> "launcher", text |-> "RETURN CODE:", arg |-> <<ret>>]>>
                 ELSE <<>>]

\* an exception that leaves main() ends the interpreter with status 1
interpreter_exit(raised) == IF raised THEN 1 ELSE 0

\* main() with step 1's mkdir wrapped in a try that swallows the error
main_next_mkdir_swallowed(step, raised, no_symlink) ==
    IF raised /\ step # "provision" THEN "crashed"
    ELSE CASE step = "provision" -> "provenance"
           [] step = "provenance" -> IF no_symlink THEN "spawn" ELSE "link"
           [] step = "link" -> "spawn"
           [] step = "spawn" -> "wait"
           [] step = "wait" -> "done"

\* main()'s control flow: the step after `step`, given whether it raised
main_next(step, raised, no_symlink) ==
    IF raised THEN "crashed"
    ELSE CASE step = "provision" -> "provenance"
           [] step = "provenance" -> IF no_symlink THEN "spawn" ELSE "link"
           [] step = "link" -> "spawn"
           [] step = "spawn" -> "wait"
           [] step = "wait" -> "done"

----------------------------------------------------------------------------
(* The state an invocation starts from. *)

InitialLinks ==
    {NoLink, SymlinkTo(DATA_DEFAULT), SymlinkTo(DataAlt), SymlinkTo(DataAltRel),
     SymlinkTo(Gone), RealDir, RealFile}

ProvenanceFile(d) == <<d, "provenance.json">>

\* what an earlier invocation with --out /runs/o1 left behind
EarlierRecord ==
    provenance(<<"train_pct.py", "--out", "/runs/o1">>, GitOk(RepoHead), GitOk(BenchHead), 0, "gpu")

Line(src, text) == [src |-> src, text |-> text, arg |-> <<>>]

Init ==
    /\ pc = "start"
    /\ argv = <<>>
    /\ args = DefaultNamespace
    /\ cwd = ROOT
    /\ now = 0
    /\ out = <<>>
    /\ meta = <<>>
    /\ cmd = <<>>
    /\ \/ repo = "dir" /\ link \in InitialLinks
       \/ repo \in {"absent", "file"} /\ link = NoLink
    /\ dirs = {"/runs/o1"}
    /\ files = (ProvenanceFile("/runs/o1") :> EarlierRecord)
    /\ terminal = <<>>
    /\ events = <<>>
    /\ child_ret = <<>>
    /\ exit_status = <<>>
    /\ script_available \in BOOLEAN
    /\ probe = [repo_git |-> FALSE, bench_git |-> FALSE, torch |-> FALSE]
    /\ linker = <<>>
    /\ link0 = link

----------------------------------------------------------------------------
(* main(), one action per numbered step. *)

\* the launcher is started: sys.argv, the working directory, the clock, parse_args
Invoke ==
    /\ pc = "start"
    /\ \E av \in Argvs, wd \in Cwds :
        /\ argv' = av
        /\ args' = parse_args(av)
        /\ cwd' = wd
    /\ now' = now + 1
    /\ pc' = "provision"
    /\ UNCHANGED <<out, meta, cmd, repo, link, dirs, files, terminal, events,
                   child_ret, exit_status, script_available, probe, linker, link0>>

\* 1) decide output directory; out.mkdir(parents=True, exist_ok=True)
Provision ==
    /\ pc = "provision"
    /\ LET d == out_dir(args, now) IN
       \E fails \in (IF d \in dirs THEN {FALSE} ELSE BOOLEAN) :
        /\ out' = <<d>>
        /\ dirs' = IF fails THEN dirs ELSE dirs \cup {d}
        /\ events' = events \o <<"mkdir_out">>
        /\ pc' = main_next("provision", fails, args.no_symlink)
        /\ exit_status' = IF fails THEN <<interpreter_exit(TRUE)>> ELSE <<>>
    /\ UNCHANGED <<argv, args, cwd, now, meta, cmd, repo, link, files, terminal,
                   child_ret, script_available, probe, linker, link0>>

RepoGitOutcomes ==
    IF repo = "dir"
    THEN {GitOk(RepoHead)} \cup (GitFailures \ {GitFails("cwd missing")})
    ELSE {GitFails("cwd missing")}

BenchGitOutcomes == {GitOk(BenchHead)} \cup (GitFailures \ {GitFails("cwd missing")})

\* 2) provenance: two git_rev calls, the torch block, write_text
Provenance ==
    /\ pc = "provenance"
    /\ \E rg \in RepoGitOutcomes, bg \in BenchGitOutcomes, torch \in TorchOutcomes :
        LET m == provenance(argv, rg, bg, now, torch) IN
        /\ meta' = <<m>>
        /\ files' = (ProvenanceFile(out[1]) :> m) @@ files
        /\ probe' = [repo_git |-> rg.raises, bench_git |-> bg.raises,
                     torch |-> FirstRaise(torch) # 0]
    /\ events' = events \o <<"git_rev", "git_rev", "write_text">>
    /\ pc' = main_next("provenance", FALSE, args.no_symlink)
    /\ UNCHANGED <<argv, args, cwd, now, out, cmd, repo, link, dirs, terminal,
                   child_ret, exit_status, script_available, linker, link0>>

\* 3) dataset symlink
Linker ==
    /\ pc = "link"
    /\ \E fault \in LinkFaults :
        LET r == ensure_symlink(args.data, link, repo, cwd, fault) IN
        /\ link' = r.link
        /\ repo' = r.repo
        /\ linker' = <<[warned |-> r.warned, raised |-> r.raised, calls |-> r.calls,
                        host_fault |-> fault # "none"]>>
        /\ terminal' = IF r.warned
                       THEN terminal \o <<Line("launcher", "[warn] Could not create symlink")>>
                       ELSE terminal
        /\ pc' = main_next("link", r.raised, args.no_symlink)
        /\ exit_status' = IF r.raised THEN <<interpreter_exit(TRUE)>> ELSE <<>>
    /\ events' = events \o <<"ensure_symlink">>
    /\ UNCHANGED <<argv, args, cwd, now, out, meta, cmd, dirs, files, child_ret,
                   script_available, probe, link0>>

\* 4) build command, 5) run_and_report up to proc.wait(); Popen needs its cwd
Spawn ==
    /\ pc = "spawn"
    /\ cmd' = <<build_cmd(args)>>
    /\ terminal' = terminal \o <<Line("launcher", ">>> CWD:"), Line("launcher", ">>>")>>
    /\ events' = events \o <<"Popen">>
    /\ pc' = main_next("spawn", repo # "dir", args.no_symlink)
    /\ exit_status' = IF repo # "dir" THEN <<interpreter_exit(TRUE)>> ELSE <<>>
    /\ UNCHANGED <<argv, args, cwd, now, out, meta, repo, link, dirs, files,
                   child_ret, script_available, probe, linker, link0>>

\* the child writes to the streams it inherited and exits; proc.wait() returns
ChildExit ==
    /\ pc = "wait"
    /\ \E ret \in 0..MaxStatus :
        LET r == run_and_report(ret) IN
        /\ child_ret' = <<ret>>
        /\ terminal' = terminal \o <<Line("child", "epoch 1")>> \o r.printed
        /\ pc' = main_next("wait", r.raised, args.no_symlink)
        /\ exit_status' = <<interpreter_exit(r.raised)>>
    /\ events' = events \o <<"wait">>
    /\ UNCHANGED <<argv, args, cwd, now, out, meta, cmd, repo, link, dirs, files,
                   script_available, probe, linker, link0>>

Next == Invoke \/ Provision \/ Provenance \/ Linker \/ Spawn \/ ChildExit

Spec == Init /\ [][Next]_vars

----------------------------------------------------------------------------
(* Vocabulary of the properties. *)

LinkerRan == linker # <<>>
ChildExited == child_ret # <<>>
Printed(src, text) == \E i \in 1..Len(terminal) : terminal[i].src = src /\ terminal[i].text = text
Called(e) == \E i \in 1..Len(events) : events[i] = e
IsPrefix(s, t) == Len(s) <= Len(t) /\ SubSeq(t, 1, Len(s)) = s

\* where the tee strategy's log would be
LogFile(d) == <<d, "train.log">>

\* the dataset directory the caller named, seen from the launcher's working directory
Target == Resolve(cwd, args.data)
TargetValid == Target \in ExistingDirs
PointsAt(lk, dir) == IsSymlink(lk) /\ ResolveLink(lk) = dir
Broken(lk) == IsSymlink(lk) /\ ~Exists(lk)

\* the trailing list as typed: argv from its first token that is no launcher option
Trailing(av) ==
    LET at == {i \in 1..Len(av) : av[i] \in ExtraTokens}
    IN IF at = {} THEN <<>>
       ELSE SubSeq(av, CHOOSE i \in at : \A j \in at : i <= j, Len(av))

----------------------------------------------------------------------------
\* C1: once the child has exited with status N, the launcher's own exit status
\* is N: 0 for 0, and exactly N for N # 0.
C1_ExitStatusIsChildStatus == ChildExited => exit_status = child_ret

\* C2: the child's command line is the interpreter, train_cls.py and the
\* trailing arguments in order, with a leading "--" removed if there is one.
C2_SeparatorStripped ==
    cmd # <<>> =>
        LET t == Trailing(argv) IN
        cmd[1] = <<"python", "train_cls.py">>
                 \o (IF t # <<>> /\ Head(t) = Separator THEN Tail(t) ELSE t)

\* the links a sequence of ensure_symlink calls that began with no link leaves
LinksFromAbsent == {NoLink} \cup {SymlinkTo(p) : p \in {DATA_DEFAULT} \cup DataPaths}

\* C3: in a sequence of ensure_symlink calls that began with no link, the
\* first call creates the link to its target, a call whose target the link
\* already has makes no unlink or symlink call, no warning and no change, a
\* call with another target leaves the link resolving to that target, and
\* after every call the link is not dangling.
C3_LinkSequence ==
    (LinkerRan /\ ~linker[1].host_fault /\ ~linker[1].raised
        /\ link0 \in LinksFromAbsent /\ TargetValid) =>
        /\ (link0 = NoLink => link = SymlinkTo(args.data))
        /\ (link0 = SymlinkTo(args.data) =>
                linker[1].calls = <<"mkdir">> /\ ~linker[1].warned /\ link = link0)
        /\ (link0 \notin {NoLink, SymlinkTo(args.data)} => PointsAt(link, Target))
        /\ Exists(link)

C5_LinkResolvesToTarget ==
    (LinkerRan /\ ~linker[1].host_fault /\ ~linker[1].raised /\ TargetValid) =>
        PointsAt(link, Target)

\* an OSError was raised inside the Dataset Linker step
LinkerError == LinkerRan /\ (linker[1].warned \/ linker[1].raised)

\* C6: every filesystem error inside the Dataset Linker step is caught and
\* printed as a warning, and the launcher goes on to spawn the child.
C6_LinkerErrorsNotFatal ==
    LinkerError =>
        /\ Printed("launcher", "[warn] Could not create symlink")
        /\ pc = "spawn" \/ Called("Popen")

\* C7: with the recording utility on the host, once the child has exited
\* <output-dir>/train.log holds the child's output, the output is on the
\* terminal too, and the launcher's status is the child's; without the
\* utility there is no log file and a warning said so before the child ran.
C7_TeeOrReplace ==
    /\ (script_available /\ ChildExited) =>
           /\ LogFile(out[1]) \in DOMAIN files
           /\ Printed("child", "epoch 1")
           /\ exit_status = child_ret
    /\ (~script_available /\ Called("Popen")) =>
           /\ LogFile(out[1]) \notin DOMAIN files
           /\ Printed("launcher", "[warn] no log file will be produced")

RequiredKeys == {"model", "repo_commit", "bench_commit", "time", "argv", "python"}

\* C8: once step 2 has run, <out>/provenance.json holds exactly this
\* invocation's record, whatever an earlier invocation left there, and the
\* record has the model name, both revisions, the timestamp, the argument
\* vector and the interpreter version.
C8_RecordOverwrittenAndComplete ==
    meta # <<>> =>
        /\ ProvenanceFile(out[1]) \in DOMAIN files
        /\ files[ProvenanceFile(out[1])] = meta[1]
        /\ RequiredKeys \subseteq DOMAIN meta[1]

TorchKeySet == {TorchKeys[i] : i \in 1..Len(TorchKeys)}

\* C9: a revision lookup that fails gives "unknown" for that field, a torch
\* import or query that fails leaves no torch key in the record (and the
\* record never has some torch keys without the others), the record is
\* written all the same, and the launcher goes on to step 3 or 4.
C9_ProvenanceNeverAborts ==
    meta # <<>> =>
        /\ (probe.repo_git => meta[1]["repo_commit"] = Unknown)
        /\ (probe.bench_git => meta[1]["bench_commit"] = Unknown)
        /\ (probe.torch => DOMAIN meta[1] \cap TorchKeySet = {})
        /\ DOMAIN meta[1] \cap TorchKeySet \in {{}, TorchKeySet}
        /\ ProvenanceFile(out[1]) \in DOMAIN files
        /\ files[ProvenanceFile(out[1])] = meta[1]
        /\ (events[Len(events)] = "write_text" =>
                pc = (IF args.no_symlink THEN "spawn" ELSE "link") /\ exit_status = <<>>)

C9_Witness ==
    /\ meta # <<>>
    /\ probe.repo_git /\ ~probe.bench_git /\ probe.torch
    /\ meta[1]["repo_commit"] = Unknown
    /\ meta[1]["bench_commit"] = <<"9", "a", "1">>
    /\ pc = "link"

\* the calls of a complete run, in the order of main()
FullOrder(no_symlink) ==
    <<"mkdir_out", "git_rev", "git_rev", "write_text">>
    \o (IF no_symlink THEN <<>> ELSE <<"ensure_symlink">>)
    \o <<"Popen", "wait">>

MkdirFailed == out # <<>> /\ out[1] \notin dirs

\* C10: the calls main() makes are always an initial part of: create the
\* output directory, two revision lookups, write the record, the linker
\* (unless --no-symlink), spawn, wait; so the child is spawned at most once.
\* If creating the output directory failed, nothing but that call was made:
\* no subprocess, no record, the link as it was, and the launcher has ended
\* with an error.
C10_StepsInOrder ==
    /\ IsPrefix(events, FullOrder(args.no_symlink))
    /\ Cardinality({i \in 1..Len(events) : events[i] = "Popen"}) <= 1
    /\ MkdirFailed =>
        /\ events = <<"mkdir_out">>
        /\ meta = <<>>
        /\ ProvenanceFile(out[1]) \notin DOMAIN files
        /\ link = link0 /\ linker = <<>>
        /\ pc = "crashed" /\ exit_status # <<>> /\ exit_status # <<0>>

C10_Witness == MkdirFailed /\ pc = "crashed" /\ events = <<"mkdir_out">>

====
